---- MODULE Spec2Model ----
(***************************************************************************)
(* Mergington High School API (src/app.py): teacher login sessions and     *)
(* activity rosters.  In Spec and SpecCapacity every request handler runs  *)
(* to completion before the next one starts (one action per handler); in   *)
(* SpecRace two threads run signup and unregister in two steps each.       *)
(***************************************************************************)
EXTENDS Integers, Sequences, FiniteSets, TLC

VARIABLES
    sessions,    \* app.py:32  dict session_id -> username
    activities,  \* app.py:35  dict activity name -> record
    drawn,       \* number of tokens drawn from secrets.token_urlsafe so far
    request,     \* the request handled last
    response,    \* the response it was given
    issued,      \* history: tokens set as cookie by successful logins
    destroyed,   \* history: issued tokens later presented to logout
    live,        \* history: token -> username, login done and no logout with it yet
    net,         \* history: reference rosters kept as sets
    threads      \* worker thread -> the request it is in the middle of, and
                 \* the last request it completed with its response

vars == <<sessions, activities, drawn, request, response,
          issued, destroyed, live, net, threads>>

\* ------------------------------------------------------------------ bounds

\* Successful logins in one run (tokens drawn from the generator).
MaxLogins == 2

\* Students beyond the seed that sign up for one activity in the capacity runs.
MaxExtraStudents == 9

\* ------------------------------------------------------------ Python values

None == "None"

\* Python truthiness of an Optional[str]: None and "" are falsy.
Truthy(x) == x # None /\ x # ""

\* dict helpers
EmptyDict == [x \in {} |-> None]
DictHas(d, k) == k \in DOMAIN d
DictSet(d, k, v) == [x \in (DOMAIN d) \cup {k} |-> IF x = k THEN v ELSE d[x]]
DictDel(d, k) == [x \in (DOMAIN d) \ {k} |-> d[x]]

\* list helpers
\* Variant: only the head of the list is compared.
ListHas_first_only(l, x) == Len(l) > 0 /\ l[1] = x

ListHas(l, x) == \E i \in 1..Len(l) : l[i] = x
ListAppend(l, x) == Append(l, x)
FirstIndex(l, x) == CHOOSE i \in 1..Len(l) : l[i] = x /\ \A j \in 1..(i - 1) : l[j] # x
\* Variant: list.pop() in place of list.remove(x).
ListRemove_pop(l, x) == SubSeq(l, 1, Len(l) - 1)

\* Variant: the last element is moved into the place of x (swap and pop).
ListRemove_swap_pop(l, x) ==
    LET k == FirstIndex(l, x)
    IN  [i \in 1..(Len(l) - 1) |-> IF i = k THEN l[Len(l)] ELSE l[i]]

\* list.remove(x): drops the first occurrence (the caller checked membership)
ListRemove(l, x) ==
    LET k == FirstIndex(l, x)
    IN  [i \in 1..(Len(l) - 1) |-> IF i < k THEN l[i] ELSE l[i + 1]]
ListSet(l) == {l[i] : i \in 1..Len(l)}

\* --------------------------------------------------------------- bcrypt

\* A salted hash: the salt is stored in the hash, the digest binds salt and
\* password.
hashpw(password, salt) == [salt |-> salt, digest |-> <<salt, password>>]

\* Variant: the comparison is skipped.
checkpw_accept_any(password, stored_hash) == TRUE

checkpw(password, stored_hash) == hashpw(password, stored_hash.salt) = stored_hash

\* ------------------------------------------------------ credential store

\* The teachers the credential file was written for, with their passwords.
Roster == { <<"mrodriguez", "art123">>, <<"schen", "chess456">> }

\* teachers.json as loaded at start-up: username and salted password hash.
teachers_data ==
    [teachers |-> << [username |-> "mrodriguez", password_hash |-> hashpw("art123", "s1")],
                     [username |-> "schen", password_hash |-> hashpw("chess456", "s2")] >>]

\* The default of next(..., None), in the shape of a teacher entry.
NoTeacher == [username |-> None, password_hash |-> None]

\* Variant: next(...) falls back to the first teacher, not to None.
find_teacher_fallback(username) ==
    LET ts == teachers_data.teachers
        hits == {i \in 1..Len(ts) : ts[i].username = username}
    IN  IF hits = {} THEN ts[1]
        ELSE ts[CHOOSE i \in hits : \A j \in hits : i <= j]

\* next((t for t in teachers if t["username"] == username), None)
find_teacher(username) ==
    LET ts == teachers_data.teachers
        hits == {i \in 1..Len(ts) : ts[i].username = username}
    IN  IF hits = {} THEN NoTeacher
        ELSE ts[CHOOSE i \in hits : \A j \in hits : i <= j]

\* ------------------------------------------------------------ secrets

\* The values secrets.token_urlsafe(32) returns, in the order of the calls:
\* 256 random bits each, taken as pairwise different.
TokenStream == <<"tokA", "tokB", "tokC", "tokD", "tokE", "tokF">>

token_urlsafe(n) == TokenStream[n]

\* ---------------------------------------------------------- seed data

SeedActivities ==
    [ n \in {"Chess Club", "Programming Class", "Gym Class", "Soccer Team",
             "Basketball Team", "Art Club", "Drama Club", "Math Club", "Debate Team"} |->
      CASE n = "Chess Club" ->
             [description |-> "Learn strategies and compete in chess tournaments",
              schedule |-> "Fridays, 3:30 PM - 5:00 PM",
              max_participants |-> 12,
              participants |-> <<"michael@mergington.edu", "daniel@mergington.edu">>]
        [] n = "Programming Class" ->
             [description |-> "Learn programming fundamentals and build software projects",
              schedule |-> "Tuesdays and Thursdays, 3:30 PM - 4:30 PM",
              max_participants |-> 20,
              participants |-> <<"emma@mergington.edu", "sophia@mergington.edu">>]
        [] n = "Gym Class" ->
             [description |-> "Physical education and sports activities",
              schedule |-> "Mondays, Wednesdays, Fridays, 2:00 PM - 3:00 PM",
              max_participants |-> 30,
              participants |-> <<"john@mergington.edu", "olivia@mergington.edu">>]
        [] n = "Soccer Team" ->
             [description |-> "Join the school soccer team and compete in matches",
              schedule |-> "Tuesdays and Thursdays, 4:00 PM - 5:30 PM",
              max_participants |-> 22,
              participants |-> <<"liam@mergington.edu", "noah@mergington.edu">>]
        [] n = "Basketball Team" ->
             [description |-> "Practice and play basketball with the school team",
              schedule |-> "Wednesdays and Fridays, 3:30 PM - 5:00 PM",
              max_participants |-> 15,
              participants |-> <<"ava@mergington.edu", "mia@mergington.edu">>]
        [] n = "Art Club" ->
             [description |-> "Explore your creativity through painting and drawing",
              schedule |-> "Thursdays, 3:30 PM - 5:00 PM",
              max_participants |-> 15,
              participants |-> <<"amelia@mergington.edu", "harper@mergington.edu">>]
        [] n = "Drama Club" ->
             [description |-> "Act, direct, and produce plays and performances",
              schedule |-> "Mondays and Wednesdays, 4:00 PM - 5:30 PM",
              max_participants |-> 20,
              participants |-> <<"ella@mergington.edu", "scarlett@mergington.edu">>]
        [] n = "Math Club" ->
             [description |-> "Solve challenging problems and participate in math competitions",
              schedule |-> "Tuesdays, 3:30 PM - 4:30 PM",
              max_participants |-> 10,
              participants |-> <<"james@mergington.edu", "benjamin@mergington.edu">>]
        [] n = "Debate Team" ->
             [description |-> "Develop public speaking and argumentation skills",
              schedule |-> "Fridays, 4:00 PM - 5:30 PM",
              max_participants |-> 12,
              participants |-> <<"charlotte@mergington.edu", "henry@mergington.edu">>] ]

\* ------------------------------------------------------ request inputs

ReqUsernames == {"mrodriguez", "schen", "nobody"}
ReqPasswords == {"art123", "chess456", "wrong"}
ReqCookies == {None, "", "forged"} \cup {token_urlsafe(i) : i \in 1..MaxLogins}
ReqActivityNames == {"Chess Club", "Programming Class", "Juggling Club"}
ReqEmails == {"michael@mergington.edu", "test@mergington.edu"}
\* (activity_name, email) of the signup and unregister requests: both emails
\* on a seeded activity and on an unknown one, one email on a second activity.
ReqRosterChanges ==
    {ae \in ReqActivityNames \X ReqEmails :
        ae[1] = "Programming Class" => ae[2] = "michael@mergington.edu"}

\* Emails of further students, in the order in which they sign up.
StudentStream ==
    <<"s01@mergington.edu", "s02@mergington.edu", "s03@mergington.edu",
      "s04@mergington.edu", "s05@mergington.edu", "s06@mergington.edu",
      "s07@mergington.edu", "s08@mergington.edu", "s09@mergington.edu",
      "s10@mergington.edu", "s11@mergington.edu", "s12@mergington.edu">>

Req(op, session_id, username, password, activity_name, email) ==
    [op |-> op, session_id |-> session_id, username |-> username,
     password |-> password, activity_name |-> activity_name, email |-> email]

\* ------------------------------------------------------ HTTP responses

NoCookies == <<>>

JSONResponse(status_code, content, cookies) ==
    [status_code |-> status_code, content |-> content, cookies |-> cookies]

\* raise HTTPException(status_code, detail), as rendered by the framework
HTTPException(status_code, detail) ==
    JSONResponse(status_code, [detail |-> detail], NoCookies)

\* --------------------------------------------------------- auth helpers

\* Variant: returns the cookie value where the code returns the stored username.
get_current_user_returns_token(session_id) ==
    IF Truthy(session_id) /\ DictHas(sessions, session_id)
    THEN session_id
    ELSE None

get_current_user(session_id) ==
    IF Truthy(session_id) /\ DictHas(sessions, session_id)
    THEN sessions[session_id]
    ELSE None

\* The dependency either raises (raised, with the exception) or returns the user.
\* Variant: the check of the user is missing.
require_auth_never_raises(session_id) ==
    [raised |-> FALSE, exc |-> None, user |-> get_current_user(session_id)]

require_auth(session_id) ==
    LET user == get_current_user(session_id)
    IN  IF ~Truthy(user)
        THEN [raised |-> TRUE,
              exc |-> HTTPException(401, "Authentication required"),
              user |-> None]
        ELSE [raised |-> FALSE, exc |-> None, user |-> user]

\* ------------------------------------------------------------ history

\* What an observer of requests and responses records; no handler reads it.
Observe(req, resp) ==
    LET loginOk == req.op = "login" /\ resp.status_code = 200
        tok == IF loginOk THEN resp.cookies[1].value ELSE None
        mutOk == req.op \in {"signup", "unregister"} /\ resp.status_code = 200
    IN  /\ issued' = IF loginOk THEN issued \cup {tok} ELSE issued
        /\ destroyed' = IF req.op = "logout" /\ req.session_id \in issued
                        THEN destroyed \cup {req.session_id}
                        ELSE destroyed
        /\ live' = IF loginOk THEN DictSet(live, tok, req.username)
                   ELSE IF req.op = "logout" /\ DictHas(live, req.session_id)
                        THEN DictDel(live, req.session_id)
                        ELSE live
        /\ net' = IF mutOk
                  THEN [net EXCEPT ![req.activity_name] =
                           IF req.op = "signup" THEN @ \cup {req.email}
                           ELSE @ \ {req.email}]
                  ELSE net

\* A request handled in one piece: no worker thread is in the middle of one.
Handled(req, resp) ==
    /\ request' = req
    /\ response' = resp
    /\ Observe(req, resp)
    /\ UNCHANGED threads

\* The worker threads that run the handlers (def handlers run in a thread pool).
Workers == {"w1", "w2"}

NoRequest == Req("none", None, None, None, None, None)
NoResponse == JSONResponse(0, [detail |-> None], NoCookies)

\* Worker w returns resp for req.
Completed(w, req, resp) ==
    /\ request' = req
    /\ response' = resp
    /\ Observe(req, resp)
    /\ threads' = [threads EXCEPT ![w] = [pc |-> "idle", req |-> req, resp |-> resp]]

\* Worker w passed the checks of req and stands before the statement pc.
Suspended(w, req, pc) ==
    /\ threads' = [threads EXCEPT ![w] = [pc |-> pc, req |-> req, resp |-> NoResponse]]
    /\ UNCHANGED <<request, response, issued, destroyed, live, net>>

\* An exception no handler catches: the framework answers 500.
UnhandledError(exc) == JSONResponse(500, [exception |-> exc], NoCookies)

\* ------------------------------------------------------------ handlers

Init ==
    /\ sessions = EmptyDict
    /\ activities = SeedActivities
    /\ drawn = 0
    /\ request = NoRequest
    /\ response = NoResponse
    /\ threads = [w \in Workers |-> [pc |-> "idle", req |-> NoRequest, resp |-> NoResponse]]
    /\ issued = {}
    /\ destroyed = {}
    /\ live = EmptyDict
    /\ net = [n \in DOMAIN SeedActivities |-> ListSet(SeedActivities[n].participants)]

\* GET /
root ==
    /\ Handled(Req("root", None, None, None, None, None),
               JSONResponse(302, [location |-> "/static/index.html"], NoCookies))
    /\ UNCHANGED <<sessions, activities, drawn>>

\* Variant: the session id is generated once, at import, and reused by every login.
login_token_at_import(username, password) ==
    LET teacher == find_teacher(username)
        session_id == token_urlsafe(1)
        req == Req("login", None, username, password, None, None)
    IN  IF teacher = NoTeacher \/ ~checkpw(password, teacher.password_hash)
        THEN /\ Handled(req, HTTPException(401, "Invalid credentials"))
             /\ UNCHANGED <<sessions, activities, drawn>>
        ELSE /\ drawn < MaxLogins
             /\ drawn' = drawn + 1
             /\ sessions' = DictSet(sessions, session_id, username)
             /\ Handled(req,
                    JSONResponse(200,
                        [message |-> "Logged in successfully", username |-> username],
                        << [key |-> "session_id", value |-> session_id,
                            httponly |-> TRUE, max_age |-> 86400, samesite |-> "lax"] >>))
             /\ UNCHANGED activities

LoginOk(username, session_id) ==
    JSONResponse(200,
        [message |-> "Logged in successfully", username |-> username],
        << [key |-> "session_id", value |-> session_id,
            httponly |-> TRUE, max_age |-> 86400, samesite |-> "lax"] >>)

\* Variant: a login drops the older sessions of the same teacher.
login_single_session(username, password) ==
    LET teacher == find_teacher(username)
        session_id == token_urlsafe(drawn + 1)
        req == Req("login", None, username, password, None, None)
        others == {t \in DOMAIN sessions : sessions[t] # username}
    IN  IF teacher = NoTeacher \/ ~checkpw(password, teacher.password_hash)
        THEN /\ Handled(req, HTTPException(401, "Invalid credentials"))
             /\ UNCHANGED <<sessions, activities, drawn>>
        ELSE /\ drawn < MaxLogins
             /\ drawn' = drawn + 1
             /\ sessions' = DictSet([t \in others |-> sessions[t]], session_id, username)
             /\ Handled(req, LoginOk(username, session_id))
             /\ UNCHANGED activities

\* Variant: the session is stored before the password is verified.
login_session_before_verify(username, password) ==
    LET teacher == find_teacher(username)
        session_id == token_urlsafe(drawn + 1)
        req == Req("login", None, username, password, None, None)
    IN  IF teacher = NoTeacher
        THEN /\ Handled(req, HTTPException(401, "Invalid credentials"))
             /\ UNCHANGED <<sessions, activities, drawn>>
        ELSE /\ drawn < MaxLogins
             /\ drawn' = drawn + 1
             /\ sessions' = DictSet(sessions, session_id, username)
             /\ Handled(req, IF checkpw(password, teacher.password_hash)
                             THEN LoginOk(username, session_id)
                             ELSE HTTPException(401, "Invalid credentials"))
             /\ UNCHANGED activities

\* POST /auth/login
login(username, password) ==
    LET teacher == find_teacher(username)
        session_id == token_urlsafe(drawn + 1)
        req == Req("login", None, username, password, None, None)
    IN  IF teacher = NoTeacher
        THEN /\ Handled(req, HTTPException(401, "Invalid credentials"))
             /\ UNCHANGED <<sessions, activities, drawn>>
        ELSE IF ~checkpw(password, teacher.password_hash)
        THEN /\ Handled(req, HTTPException(401, "Invalid credentials"))
             /\ UNCHANGED <<sessions, activities, drawn>>
        ELSE /\ drawn < MaxLogins
             /\ drawn' = drawn + 1
             /\ sessions' = DictSet(sessions, session_id, username)
             /\ Handled(req,
                    JSONResponse(200,
                        [message |-> "Logged in successfully", username |-> username],
                        << [key |-> "session_id", value |-> session_id,
                            httponly |-> TRUE, max_age |-> 86400, samesite |-> "lax"] >>))
             /\ UNCHANGED activities

LogoutResponse ==
    JSONResponse(200, [message |-> "Logged out successfully"],
        << [key |-> "session_id", value |-> "", httponly |-> FALSE,
            max_age |-> 0, samesite |-> "lax"] >>)

\* Variant: the cookie is cleared and the registry entry is kept.
logout_keeps_entry(session_id) ==
    /\ Handled(Req("logout", session_id, None, None, None, None), LogoutResponse)
    /\ UNCHANGED <<sessions, activities, drawn>>

\* Variant: sessions.clear() in place of del sessions[session_id].
logout_clears_all(session_id) ==
    /\ sessions' = IF Truthy(session_id) /\ DictHas(sessions, session_id)
                   THEN EmptyDict
                   ELSE sessions
    /\ Handled(Req("logout", session_id, None, None, None, None), LogoutResponse)
    /\ UNCHANGED <<activities, drawn>>

\* POST /auth/logout
logout(session_id) ==
    /\ sessions' = IF Truthy(session_id) /\ DictHas(sessions, session_id)
                   THEN DictDel(sessions, session_id)
                   ELSE sessions
    /\ Handled(Req("logout", session_id, None, None, None, None), LogoutResponse)
    /\ UNCHANGED <<activities, drawn>>

\* GET /auth/status
auth_status(session_id) ==
    LET user == get_current_user(session_id)
    IN  /\ Handled(Req("status", session_id, None, None, None, None),
                   IF Truthy(user)
                   THEN JSONResponse(200, [authenticated |-> TRUE, username |-> user], NoCookies)
                   ELSE JSONResponse(200, [authenticated |-> FALSE, username |-> None], NoCookies))
        /\ UNCHANGED <<sessions, activities, drawn>>

\* Variant: the listing is a copy taken at start-up.
get_activities_stale ==
    /\ Handled(Req("list", None, None, None, None, None),
               JSONResponse(200, SeedActivities, NoCookies))
    /\ UNCHANGED <<sessions, activities, drawn>>

\* Variant: the listing depends on require_auth like the roster changes.
get_activities_requires_auth ==
    /\ Handled(Req("list", None, None, None, None, None), require_auth(None).exc)
    /\ UNCHANGED <<sessions, activities, drawn>>

\* GET /activities
get_activities ==
    /\ Handled(Req("list", None, None, None, None, None),
               JSONResponse(200, activities, NoCookies))
    /\ UNCHANGED <<sessions, activities, drawn>>

\* Variants of signup: an unknown activity is created (setdefault) when
\* createMissing; the membership check is skipped unless checkDuplicate.
SignupVariant(activity_name, email, session_id, createMissing, checkDuplicate) ==
    LET auth == require_auth(session_id)
        req == Req("signup", session_id, None, None, activity_name, email)
        ok == JSONResponse(200,
                  [message |-> <<"Signed up ", email, " for ", activity_name>>], NoCookies)
    IN  IF auth.raised
        THEN /\ Handled(req, auth.exc)
             /\ UNCHANGED <<sessions, activities, drawn>>
        ELSE IF ~DictHas(activities, activity_name)
        THEN IF createMissing
             THEN /\ activities' = DictSet(activities, activity_name,
                                       [description |-> "", schedule |-> "",
                                        max_participants |-> 0,
                                        participants |-> <<email>>])
                  /\ Handled(req, ok)
                  /\ UNCHANGED <<sessions, drawn>>
             ELSE /\ Handled(req, HTTPException(404, "Activity not found"))
                  /\ UNCHANGED <<sessions, activities, drawn>>
        ELSE IF checkDuplicate /\ ListHas(activities[activity_name].participants, email)
        THEN /\ Handled(req, HTTPException(400, "Student is already signed up"))
             /\ UNCHANGED <<sessions, activities, drawn>>
        ELSE /\ activities' = [activities EXCEPT ![activity_name].participants =
                                   ListAppend(@, email)]
             /\ Handled(req, ok)
             /\ UNCHANGED <<sessions, drawn>>

signup_no_duplicate_check(activity_name, email, session_id) ==
    SignupVariant(activity_name, email, session_id, FALSE, FALSE)

signup_creates_activity(activity_name, email, session_id) ==
    SignupVariant(activity_name, email, session_id, TRUE, TRUE)

\* Variant: a full activity refuses further signups.
signup_with_capacity_check(activity_name, email, session_id) ==
    LET auth == require_auth(session_id)
        req == Req("signup", session_id, None, None, activity_name, email)
    IN  IF auth.raised
        THEN /\ Handled(req, auth.exc)
             /\ UNCHANGED <<sessions, activities, drawn>>
        ELSE IF ~DictHas(activities, activity_name)
        THEN /\ Handled(req, HTTPException(404, "Activity not found"))
             /\ UNCHANGED <<sessions, activities, drawn>>
        ELSE IF ListHas(activities[activity_name].participants, email)
        THEN /\ Handled(req, HTTPException(400, "Student is already signed up"))
             /\ UNCHANGED <<sessions, activities, drawn>>
        ELSE IF Len(activities[activity_name].participants)
                    >= activities[activity_name].max_participants
        THEN /\ Handled(req, HTTPException(400, "Activity is full"))
             /\ UNCHANGED <<sessions, activities, drawn>>
        ELSE /\ activities' = [activities EXCEPT ![activity_name].participants =
                                   ListAppend(@, email)]
             /\ Handled(req,
                    JSONResponse(200,
                        [message |-> <<"Signed up ", email, " for ", activity_name>>],
                        NoCookies))
             /\ UNCHANGED <<sessions, drawn>>

\* Variant: the answer names the teacher whose session made the request.
signup_names_teacher(activity_name, email, session_id) ==
    LET auth == require_auth(session_id)
        req == Req("signup", session_id, None, None, activity_name, email)
    IN  IF auth.raised
        THEN /\ Handled(req, auth.exc)
             /\ UNCHANGED <<sessions, activities, drawn>>
        ELSE IF ~DictHas(activities, activity_name)
        THEN /\ Handled(req, HTTPException(404, "Activity not found"))
             /\ UNCHANGED <<sessions, activities, drawn>>
        ELSE IF ListHas(activities[activity_name].participants, email)
        THEN /\ Handled(req, HTTPException(400, "Student is already signed up"))
             /\ UNCHANGED <<sessions, activities, drawn>>
        ELSE /\ activities' = [activities EXCEPT ![activity_name].participants =
                                   ListAppend(@, email)]
             /\ Handled(req,
                    JSONResponse(200,
                        [message |-> <<auth.user, " signed up ", email, " for ",
                                       activity_name>>],
                        NoCookies))
             /\ UNCHANGED <<sessions, drawn>>

\* POST /activities/{activity_name}/signup
signup_for_activity(activity_name, email, session_id) ==
    LET auth == require_auth(session_id)
        req == Req("signup", session_id, None, None, activity_name, email)
    IN  IF auth.raised
        THEN /\ Handled(req, auth.exc)
             /\ UNCHANGED <<sessions, activities, drawn>>
        ELSE IF ~DictHas(activities, activity_name)
        THEN /\ Handled(req, HTTPException(404, "Activity not found"))
             /\ UNCHANGED <<sessions, activities, drawn>>
        ELSE IF ListHas(activities[activity_name].participants, email)
        THEN /\ Handled(req, HTTPException(400, "Student is already signed up"))
             /\ UNCHANGED <<sessions, activities, drawn>>
        ELSE /\ activities' = [activities EXCEPT ![activity_name].participants =
                                   ListAppend(@, email)]
             /\ Handled(req,
                    JSONResponse(200,
                        [message |-> <<"Signed up ", email, " for ", activity_name>>],
                        NoCookies))
             /\ UNCHANGED <<sessions, drawn>>

\* DELETE /activities/{activity_name}/unregister
unregister_from_activity(activity_name, email, session_id) ==
    LET auth == require_auth(session_id)
        req == Req("unregister", session_id, None, None, activity_name, email)
    IN  IF auth.raised
        THEN /\ Handled(req, auth.exc)
             /\ UNCHANGED <<sessions, activities, drawn>>
        ELSE IF ~DictHas(activities, activity_name)
        THEN /\ Handled(req, HTTPException(404, "Activity not found"))
             /\ UNCHANGED <<sessions, activities, drawn>>
        ELSE IF ~ListHas(activities[activity_name].participants, email)
        THEN /\ Handled(req, HTTPException(400, "Student is not signed up for this activity"))
             /\ UNCHANGED <<sessions, activities, drawn>>
        ELSE /\ activities' = [activities EXCEPT ![activity_name].participants =
                                   ListRemove(@, email)]
             /\ Handled(req,
                    JSONResponse(200,
                        [message |-> <<"Unregistered ", email, " from ", activity_name>>],
                        NoCookies))
             /\ UNCHANGED <<sessions, drawn>>

Next ==
    \/ root
    \/ \E u \in ReqUsernames, p \in ReqPasswords : login(u, p)
    \/ \E c \in ReqCookies : logout(c)
    \/ \E c \in ReqCookies : auth_status(c)
    \/ get_activities
    \/ \E ae \in ReqRosterChanges, c \in ReqCookies :
           signup_for_activity(ae[1], ae[2], c)
    \/ \E ae \in ReqRosterChanges, c \in ReqCookies :
           unregister_from_activity(ae[1], ae[2], c)

Spec == Init /\ [][Next]_vars

\* Runs that fill one activity: logins, logouts, and signups for Math Club
\* (the smallest max_participants of the seed) of the seeded emails' successors
\* in stream order; a student already signed up may ask again.
NextCapacity ==
    \/ \E u \in ReqUsernames, p \in ReqPasswords : login(u, p)
    \/ \E c \in ReqCookies : logout(c)
    \/ \E k \in 1..MaxExtraStudents, c \in ReqCookies :
           /\ k <= Len(activities["Math Club"].participants)
                    - Len(SeedActivities["Math Club"].participants) + 1
           /\ signup_for_activity("Math Club", StudentStream[k], c)

SpecCapacity == Init /\ [][NextCapacity]_vars

\* ---------------------------------------- handlers run by two threads

\* (activity_name, email) of the requests the two threads make.
RaceRosterChanges == {<<"Chess Club", "test@mergington.edu">>}

\* Their cookies: none, or a token of the generator.
RaceCookies == {None} \cup {token_urlsafe(i) : i \in 1..MaxLogins}

\* signup_for_activity up to the membership check (app.py:172-186).
signup_check(w, activity_name, email, session_id) ==
    LET auth == require_auth(session_id)
        req == Req("signup", session_id, None, None, activity_name, email)
    IN  /\ threads[w].pc = "idle"
        /\ IF auth.raised
           THEN Completed(w, req, auth.exc)
           ELSE IF ~DictHas(activities, activity_name)
           THEN Completed(w, req, HTTPException(404, "Activity not found"))
           ELSE IF ListHas(activities[activity_name].participants, email)
           THEN Completed(w, req, HTTPException(400, "Student is already signed up"))
           ELSE Suspended(w, req, "append")
        /\ UNCHANGED <<sessions, activities, drawn>>

\* Variant: the membership is looked at again right before the append.
signup_append_rechecks(w) ==
    LET req == threads[w].req
    IN  /\ threads[w].pc = "append"
        /\ IF ListHas(activities[req.activity_name].participants, req.email)
           THEN /\ Completed(w, req, HTTPException(400, "Student is already signed up"))
                /\ UNCHANGED activities
           ELSE /\ activities' = [activities EXCEPT ![req.activity_name].participants =
                                      ListAppend(@, req.email)]
                /\ Completed(w, req,
                       JSONResponse(200,
                           [message |-> <<"Signed up ", req.email, " for ",
                                          req.activity_name>>],
                           NoCookies))
        /\ UNCHANGED <<sessions, drawn>>

\* signup_for_activity from the append on (app.py:188-190).
signup_append(w) ==
    LET req == threads[w].req
    IN  /\ threads[w].pc = "append"
        /\ activities' = [activities EXCEPT ![req.activity_name].participants =
                              ListAppend(@, req.email)]
        /\ Completed(w, req,
               JSONResponse(200,
                   [message |-> <<"Signed up ", req.email, " for ", req.activity_name>>],
                   NoCookies))
        /\ UNCHANGED <<sessions, drawn>>

\* unregister_from_activity up to the membership check (app.py:194-208).
unregister_check(w, activity_name, email, session_id) ==
    LET auth == require_auth(session_id)
        req == Req("unregister", session_id, None, None, activity_name, email)
    IN  /\ threads[w].pc = "idle"
        /\ IF auth.raised
           THEN Completed(w, req, auth.exc)
           ELSE IF ~DictHas(activities, activity_name)
           THEN Completed(w, req, HTTPException(404, "Activity not found"))
           ELSE IF ~ListHas(activities[activity_name].participants, email)
           THEN Completed(w, req,
                    HTTPException(400, "Student is not signed up for this activity"))
           ELSE Suspended(w, req, "remove")
        /\ UNCHANGED <<sessions, activities, drawn>>

UnregisterOk(req) ==
    JSONResponse(200,
        [message |-> <<"Unregistered ", req.email, " from ", req.activity_name>>],
        NoCookies)

\* Variant: an email that is gone is skipped (remove only when present).
unregister_remove_if_present(w) ==
    LET req == threads[w].req
    IN  /\ threads[w].pc = "remove"
        /\ activities' =
               IF ListHas(activities[req.activity_name].participants, req.email)
               THEN [activities EXCEPT ![req.activity_name].participants =
                        ListRemove(@, req.email)]
               ELSE activities
        /\ Completed(w, req, UnregisterOk(req))
        /\ UNCHANGED <<sessions, drawn>>

\* unregister_from_activity from the remove on (app.py:210-212):
\* list.remove raises ValueError when the email is not in the list.
unregister_remove(w) ==
    LET req == threads[w].req
    IN  /\ threads[w].pc = "remove"
        /\ IF ListHas(activities[req.activity_name].participants, req.email)
           THEN /\ activities' = [activities EXCEPT ![req.activity_name].participants =
                                      ListRemove(@, req.email)]
                /\ Completed(w, req, UnregisterOk(req))
           ELSE /\ Completed(w, req,
                       UnhandledError("ValueError: list.remove(x): x not in list"))
                /\ UNCHANGED activities
        /\ UNCHANGED <<sessions, drawn>>

NextRace ==
    \/ \E u \in ReqUsernames, p \in ReqPasswords : login(u, p)
    \/ \E w \in Workers, ae \in RaceRosterChanges, c \in RaceCookies :
           signup_check(w, ae[1], ae[2], c)
    \/ \E w \in Workers : signup_append(w)
    \/ \E w \in Workers, ae \in RaceRosterChanges, c \in RaceCookies :
           unregister_check(w, ae[1], ae[2], c)
    \/ \E w \in Workers : unregister_remove(w)

SpecRace == Init /\ [][NextRace]_vars

TypeOK ==
    /\ DOMAIN sessions \subseteq {token_urlsafe(i) : i \in 1..drawn}
    /\ DOMAIN activities = DOMAIN SeedActivities
    /\ drawn \in 0..MaxLogins

\* ------------------------------------------------------------ properties

\* The step handles a signup or unregister request.
IsMutation(req) == req.op \in {"signup", "unregister"}

\* The cookie of the request is the token of a login that no logout has ended.
LoggedIn(req) == DictHas(live, req.session_id)

Rosters(acts) == [n \in DOMAIN acts |-> acts[n].participants]

Count(l, x) == Cardinality({i \in 1..Len(l) : l[i] = x})

\* C1: a signup or unregister request without session_id cookie, or with a
\* session_id that is no key of the session registry, is answered 401 whatever
\* the activity name and the email (also for an unknown activity), and no
\* roster changes.
C1_UnauthenticatedIs401 ==
    [][ ( /\ IsMutation(request')
          /\ \/ request'.session_id = None
             \/ ~DictHas(sessions, request'.session_id) )
        => /\ response'.status_code = 401
           /\ Rosters(activities') = Rosters(activities) ]_vars

\* C1 witness: a signup for an unknown activity with a forged cookie got 401.
C1_Witness ==
    /\ request.op = "signup"
    /\ request.session_id = "forged"
    /\ request.activity_name = "Juggling Club"
    /\ response.status_code = 401

\* C2: a login with a (username, password) pair of the credential store
\* succeeds, and the token it stores and sends differs from every token an
\* earlier login issued, live or destroyed.
C2_LoginIssuesFreshToken ==
    [][ ( /\ request'.op = "login"
          /\ <<request'.username, request'.password>> \in Roster )
        => /\ response'.status_code = 200
           /\ Len(response'.cookies) = 1
           /\ LET tok == response'.cookies[1].value
              IN  /\ tok \notin issued
                  /\ ~DictHas(sessions, tok)
                  /\ DictHas(sessions', tok)
                  /\ sessions'[tok] = request'.username ]_vars

\* C2 witness: a second successful login, made after the first session was
\* destroyed.
C2_Witness ==
    /\ request.op = "login"
    /\ response.status_code = 200
    /\ Cardinality(issued) = 2
    /\ destroyed # {}

\* C3: a login with an unknown username, or with a known username and a wrong
\* password, gets the same 401 "Invalid credentials" answer and adds no entry
\* to the session registry.
C3_InvalidCredentialsIs401 ==
    [][ ( /\ request'.op = "login"
          /\ <<request'.username, request'.password>> \notin Roster )
        => /\ response' = HTTPException(401, "Invalid credentials")
           /\ sessions' = sessions ]_vars

\* C3 witness: a known username with the password of another teacher was
\* refused.
C3_Witness ==
    /\ request.op = "login"
    /\ request.username = "mrodriguez"
    /\ request.password = "chess456"
    /\ response.status_code = 401

\* The cookie is a token no login issued, or an issued one presented to logout.
DeadToken(req) == req.session_id \notin issued \/ req.session_id \in destroyed

\* C4: with a never-issued or destroyed token the status check reports
\* authenticated = false and signup and unregister are answered 401.
C4_DeadTokenUnauthenticated ==
    [][ /\ (request'.op = "status" /\ DeadToken(request'))
           => response'.content.authenticated = FALSE
        /\ (IsMutation(request') /\ DeadToken(request'))
           => response'.status_code = 401 ]_vars

\* C4 witness: a status check with a token that was issued and then logged out.
C4_Witness ==
    /\ request.op = "status"
    /\ request.session_id \in destroyed
    /\ response.content.authenticated = FALSE

\* C5: from a successful login until a logout with the issued token, the
\* status check with the token reports authenticated = true and the username
\* that logged in, and signup and unregister with it are never answered 401.
C5_LiveTokenAuthenticated ==
    [][ /\ (request'.op = "status" /\ LoggedIn(request'))
           => response'.content =
                  [authenticated |-> TRUE, username |-> live[request'.session_id]]
        /\ (IsMutation(request') /\ LoggedIn(request'))
           => response'.status_code # 401 ]_vars

\* C5 witness: a status check with the token of the second teacher, after the
\* other session was logged out.
C5_Witness ==
    /\ request.op = "status"
    /\ DictHas(live, request.session_id)
    /\ live[request.session_id] = "schen"
    /\ response.content.authenticated = TRUE
    /\ destroyed # {}

\* C6: logout is answered 200 with or without cookie, removes at most the
\* entry of the presented token, leaves the registry as it is when the token
\* is absent, and changes no other session and no activity.
C6_LogoutFrame ==
    [][ request'.op = "logout"
        => /\ response'.status_code = 200
           /\ DOMAIN sessions' \subseteq DOMAIN sessions
           /\ \A t \in DOMAIN sessions \ {request'.session_id} :
                 DictHas(sessions', t) /\ sessions'[t] = sessions[t]
           /\ ~DictHas(sessions, request'.session_id) => sessions' = sessions
           /\ activities' = activities ]_vars

\* C6 witness: a logout with a live token while another session stays.
C6_Witness ==
    /\ request.op = "logout"
    /\ request.session_id \in destroyed
    /\ ~DictHas(sessions, request.session_id)
    /\ DOMAIN sessions # {}

\* C7: for a logged-in caller and an existing activity, a signup of an email
\* not in the roster is answered 200 and appends it; a signup of an email in
\* the roster is answered 400 "Student is already signed up" and changes no
\* activity; either way the roster then holds the email exactly once.
C7_SignupOnce ==
    [][ ( /\ request'.op = "signup"
          /\ LoggedIn(request')
          /\ DictHas(SeedActivities, request'.activity_name) )
        => LET a == request'.activity_name
               e == request'.email
               before == activities[a].participants
           IN  /\ ~ListHas(before, e)
                  => /\ response'.status_code = 200
                     /\ activities'[a].participants = Append(before, e)
               /\ ListHas(before, e)
                  => /\ response' = HTTPException(400, "Student is already signed up")
                     /\ activities' = activities
               /\ Count(activities'[a].participants, e) = 1 ]_vars

\* C7 witness: a repeated signup of an email that an earlier signup added.
C7_Witness ==
    /\ request.op = "signup"
    /\ request.activity_name = "Chess Club"
    /\ request.email = "test@mergington.edu"
    /\ response.status_code = 400
    /\ Count(activities["Chess Club"].participants, "test@mergington.edu") = 1

\* C8: for a logged-in caller and an existing activity, unregister of an
\* email in the roster is answered 200 and the email is gone from the roster;
\* unregister of an email not in the roster is answered 400 "Student is not
\* signed up for this activity" and changes no activity.
C8_Unregister ==
    [][ ( /\ request'.op = "unregister"
          /\ LoggedIn(request')
          /\ DictHas(SeedActivities, request'.activity_name) )
        => LET a == request'.activity_name
               e == request'.email
               before == activities[a].participants
           IN  /\ ListHas(before, e)
                  => /\ response'.status_code = 200
                     /\ ~ListHas(activities'[a].participants, e)
               /\ ~ListHas(before, e)
                  => /\ response' = HTTPException(400,
                                        "Student is not signed up for this activity")
                     /\ activities' = activities ]_vars

\* C8 witness: a second unregister of a seeded email, after the first removed it.
C8_Witness ==
    /\ request.op = "unregister"
    /\ request.activity_name = "Chess Club"
    /\ request.email = "michael@mergington.edu"
    /\ response.status_code = 400
    /\ ~ListHas(activities["Chess Club"].participants, "michael@mergington.edu")

\* C9: for a logged-in caller, signup and unregister on a name that is no key
\* of the activity registry are answered 404 for every email, and the set of
\* activity names is the seed's in every reachable state.
C9_UnknownActivityIs404 ==
    /\ [](DOMAIN activities = DOMAIN SeedActivities)
    /\ [][ ( /\ IsMutation(request')
             /\ LoggedIn(request')
             /\ ~DictHas(activities, request'.activity_name) )
           => /\ response'.status_code = 404
              /\ activities' = activities ]_vars

\* C9 witness: an unregister on an unknown activity by a logged-in caller.
C9_Witness ==
    /\ request.op = "unregister"
    /\ DictHas(live, request.session_id)
    /\ request.activity_name = "Juggling Club"
    /\ response.status_code = 404

\* C10: every roster, and every roster a listing returns, equals as a set the
\* seed roster plus the emails of the successful signups minus those of the
\* successful unregisters on that activity.
C10_ListingIsNetRoster ==
    /\ \A n \in DOMAIN net :
          DictHas(activities, n) /\ ListSet(activities[n].participants) = net[n]
    /\ request.op = "list"
       => /\ response.status_code = 200
          /\ DOMAIN response.content = DOMAIN net
          /\ \A n \in DOMAIN net : ListSet(response.content[n].participants) = net[n]

\* C10 witness: a listing after a signup and an unregister on the same activity.
C10_Witness ==
    /\ request.op = "list"
    /\ net["Chess Club"] = {"daniel@mergington.edu", "test@mergington.edu"}
    /\ response.content = activities

\* C11 as stated: a listing request without a valid session token does not
\* return the activity mapping.  (get_activities reads no cookie: every
\* listing request is one without a session token.)
C11_ListingRequiresSession ==
    request.op = "list" => response.status_code # 200

\* C11 as amended: get_activities asks for no session; every listing request
\* is answered 200 with the full activity mapping, whatever the session
\* registry holds.
C11_ListingIsPublic ==
    request.op = "list"
    => /\ response.status_code = 200
       /\ response.content = activities

\* C11 witness: a listing answered in full while nobody is logged in.
C11_Witness ==
    /\ request.op = "list"
    /\ DOMAIN sessions = {}
    /\ response.status_code = 200
    /\ response.content = activities

\* C12: an entry of the session registry stays as it is through every step
\* other than a logout with its own token, and the token of every login not
\* yet ended by such a logout resolves to the username that logged in.
C12_SessionNeverExpires ==
    /\ [](\A t \in DOMAIN live :
             /\ DictHas(sessions, t)
             /\ sessions[t] = live[t]
             /\ get_current_user(t) = live[t])
    /\ [][ \A t \in DOMAIN sessions :
              ~(request'.op = "logout" /\ request'.session_id = t)
              => DictHas(sessions', t) /\ sessions'[t] = sessions[t] ]_vars

\* C12 witness: a second login of the same teacher, the first session still
\* in the registry.
C12_Witness ==
    /\ request.op = "login"
    /\ response.status_code = 200
    /\ \E t1, t2 \in DOMAIN sessions : t1 # t2 /\ sessions[t1] = sessions[t2]

IsFailure(resp) == resp.status_code \in {400, 401, 404}

\* C13: a login, signup or unregister that ends in 401, 404 or 400 leaves the
\* session registry and every activity record as they were, and the same
\* request issued again right after it gets the same answer.
C13_FailureChangesNothing ==
    /\ [][ ( /\ request'.op \in {"login", "signup", "unregister"}
             /\ IsFailure(response') )
           => /\ sessions' = sessions
              /\ activities' = activities ]_vars
    /\ [][ ( /\ request.op \in {"login", "signup", "unregister"}
             /\ IsFailure(response)
             /\ request' = request )
           => response' = response ]_vars

\* C13 witness: a refused login while a session exists and a roster differs
\* from the seed.
C13_Witness ==
    /\ request.op = "login"
    /\ response.status_code = 401
    /\ DOMAIN sessions # {}
    /\ activities # SeedActivities

\* C15: with one request handled at a time, no roster holds an email twice.
C15_RostersDuplicateFree ==
    \A n \in DOMAIN activities :
        LET l == activities[n].participants
        IN  \A i, j \in 1..Len(l) : l[i] = l[j] => i = j

\* C15 witness: a seeded email was unregistered and signed up again, and a
\* further signup of it was refused.
C15_Witness ==
    /\ request.op = "signup"
    /\ request.email = "michael@mergington.edu"
    /\ response.status_code = 400
    /\ activities["Chess Club"].participants =
           <<"daniel@mergington.edu", "michael@mergington.edu">>

Without(l, x) == SelectSeq(l, LAMBDA y : y # x)

\* C18: a successful signup or unregister on activity A changes A's roster by
\* the one email of the request and nothing else: the other activities, A's
\* description, schedule and max_participants, the order of the other emails
\* of A and the session registry stay; status check and listing change
\* neither the session registry nor the activities.
C18_RosterChangeFrame ==
    /\ [][ (IsMutation(request') /\ response'.status_code = 200)
           => LET a == request'.activity_name
                  e == request'.email
              IN  /\ DictHas(activities, a)
                  /\ DOMAIN activities' = DOMAIN activities
                  /\ \A n \in DOMAIN activities \ {a} : activities'[n] = activities[n]
                  /\ activities'[a].description = activities[a].description
                  /\ activities'[a].schedule = activities[a].schedule
                  /\ activities'[a].max_participants = activities[a].max_participants
                  /\ Without(activities'[a].participants, e)
                         = Without(activities[a].participants, e)
                  /\ Count(activities'[a].participants, e)
                         = Count(activities[a].participants, e)
                           + (IF request'.op = "signup" THEN 1 ELSE -1)
                  /\ sessions' = sessions ]_vars
    /\ [][ request'.op \in {"status", "list"}
           => /\ sessions' = sessions
              /\ activities' = activities
              /\ drawn' = drawn ]_vars

\* C18 witness: the first of three emails was unregistered, the other two
\* keep their order.
C18_Witness ==
    /\ request.op = "unregister"
    /\ request.email = "michael@mergington.edu"
    /\ response.status_code = 200
    /\ activities["Chess Club"].participants =
           <<"daniel@mergington.edu", "test@mergington.edu">>

\* The answer and the activities after a signup or unregister that passed
\* require_auth, as a function of the activities before and of the request's
\* activity name and email alone.
RosterOutcome(acts, op, a, e) ==
    IF a \notin DOMAIN acts
    THEN [response |-> HTTPException(404, "Activity not found"), activities |-> acts]
    ELSE IF op = "signup"
    THEN IF e \in ListSet(acts[a].participants)
         THEN [response |-> HTTPException(400, "Student is already signed up"),
               activities |-> acts]
         ELSE [response |-> JSONResponse(200,
                                [message |-> <<"Signed up ", e, " for ", a>>], NoCookies),
               activities |-> [acts EXCEPT ![a].participants = Append(@, e)]]
    ELSE IF e \notin ListSet(acts[a].participants)
         THEN [response |-> HTTPException(400, "Student is not signed up for this activity"),
               activities |-> acts]
         ELSE [response |-> JSONResponse(200,
                                [message |-> <<"Unregistered ", e, " from ", a>>], NoCookies),
               activities |-> [acts EXCEPT ![a].participants = Without(@, e)]]

\* C19: the answer to a signup or unregister made with a valid session, and
\* the activities after it, are determined by the activities before and the
\* request's activity name and email: they are the same whichever teacher the
\* session resolves to.
C19_TeacherIndependent ==
    [][ (IsMutation(request') /\ DictHas(sessions, request'.session_id))
        => LET o == RosterOutcome(activities, request'.op,
                                  request'.activity_name, request'.email)
           IN  /\ response' = o.response
               /\ activities' = o.activities ]_vars

\* C19 witness: two teachers are logged in and the second one's session
\* signed a student up.
C19_Witness ==
    /\ request.op = "signup"
    /\ response.status_code = 200
    /\ DictHas(sessions, request.session_id)
    /\ sessions[request.session_id] = "schen"
    /\ \E t \in DOMAIN sessions : sessions[t] = "mrodriguez"

StoreUsernames == {p[1] : p \in Roster}

\* C20: the session registry starts empty; each username in it is a teacher
\* of the credential store, put there by a login whose password was verified;
\* only a successful login adds an entry and only a logout removes one.
C20_RegistryHoldsVerifiedTeachers ==
    /\ sessions = EmptyDict
    /\ [](\A t \in DOMAIN sessions :
             /\ sessions[t] \in StoreUsernames
             /\ DictHas(live, t)
             /\ live[t] = sessions[t])
    /\ [][ /\ (DOMAIN sessions' \ DOMAIN sessions # {})
              => /\ request'.op = "login"
                 /\ response'.status_code = 200
                 /\ <<request'.username, request'.password>> \in Roster
                 /\ sessions' = DictSet(sessions, response'.cookies[1].value,
                                        request'.username)
           /\ (DOMAIN sessions \ DOMAIN sessions' # {})
              => request'.op = "logout" ]_vars

\* C20 witness: both teachers of the store have an entry in the registry.
C20_Witness ==
    {sessions[t] : t \in DOMAIN sessions} = {"mrodriguez", "schen"}

\* C14: signup makes no capacity check: for a logged-in caller, an existing
\* activity and an email not in its roster, signup is answered 200 and appends
\* the email also when the roster holds max_participants emails or more.
C14_NoCapacityCheck ==
    [][ ( /\ request'.op = "signup"
          /\ LoggedIn(request')
          /\ DictHas(activities, request'.activity_name)
          /\ ~ListHas(activities[request'.activity_name].participants, request'.email)
          /\ Len(activities[request'.activity_name].participants)
                 >= activities[request'.activity_name].max_participants )
        => /\ response'.status_code = 200
           /\ activities'[request'.activity_name].participants =
                  Append(activities[request'.activity_name].participants, request'.email) ]_vars

\* C14 witness: a roster longer than the activity's max_participants, reached
\* by a signup that was answered 200.
C14_Witness ==
    /\ request.op = "signup"
    /\ response.status_code = 200
    /\ Len(activities["Math Club"].participants)
           > activities["Math Club"].max_participants

\* Worker w takes the step that completes the request it was suspended in at pc.
Resumes(w, pc) == threads[w].pc = pc /\ threads'[w].pc = "idle"

\* C16: with the membership check and the append as separate steps, a signup
\* that passed the check appends and is answered 200 whatever the other
\* thread did in between; two signups of one email that both passed the check
\* both succeed and the roster holds the email twice (the witness).
C16_SignupRace ==
    [][ \A w \in Workers :
           Resumes(w, "append")
           => LET a == threads[w].req.activity_name
                  e == threads[w].req.email
              IN  /\ threads'[w].resp.status_code = 200
                  /\ activities'[a].participants = Append(activities[a].participants, e)
                  /\ Count(activities'[a].participants, e)
                         = Count(activities[a].participants, e) + 1 ]_vars

\* C16 witness: both threads were answered 200 for a signup of the same email
\* and the roster holds it twice.
C16_Witness ==
    /\ \A w \in Workers :
          /\ threads[w].pc = "idle"
          /\ threads[w].req.op = "signup"
          /\ threads[w].req.activity_name = "Chess Club"
          /\ threads[w].req.email = "test@mergington.edu"
          /\ threads[w].resp.status_code = 200
    /\ Count(activities["Chess Club"].participants, "test@mergington.edu") = 2

\* C17: with the membership check and the removal as separate steps, an
\* unregister that passed the check and then finds the email gone ends in an
\* error that is none of 200, 400, 401, 404, and changes no activity.
C17_UnregisterRace ==
    [][ \A w \in Workers :
           ( /\ Resumes(w, "remove")
             /\ ~ListHas(activities[threads[w].req.activity_name].participants,
                         threads[w].req.email) )
           => /\ threads'[w].resp.status_code \notin {200, 400, 401, 404}
              /\ threads'[w].resp = response'
              /\ activities' = activities ]_vars

\* C17 witness: two unregisters of the same email, one answered 200 and the
\* other ended in the unhandled error.
C17_Witness ==
    \E w1, w2 \in Workers :
        /\ threads[w1].req.op = "unregister"
        /\ threads[w2].req.op = "unregister"
        /\ threads[w1].req.email = threads[w2].req.email
        /\ threads[w1].pc = "idle"
        /\ threads[w2].pc = "idle"
        /\ threads[w1].resp.status_code = 200
        /\ threads[w2].resp.status_code = 500
        /\ ~ListHas(activities["Chess Club"].participants, threads[w2].req.email)

====
